---- MODULE Spec2Model ----
(***************************************************************************)
(* Model of re_xsr1d.py: reconstruction of a linear sector image from an   *)
(* XSR1d flash dump.  XSR1d.reconstruct = read_metadata, build_sector_map, *)
(* rearrange_data.                                                         *)
(*                                                                         *)
(* The input buffer is kept sparse: its length, a fill byte and the bytes  *)
(* that differ from the fill byte.  The output bytearray is kept as the    *)
(* sequence of pieces rearrange_data appends to it, each piece being a     *)
(* slice [lo, hi) of the input followed by ff bytes of 0xFF.               *)
(***************************************************************************)
EXTENDS Integers, Sequences, FiniteSets, TLC

(* ---------------- program constants ---------------- *)
SECTOR_SIZE == 512
SECTOR_SPARE_SIZE == 16
PAGE_SIZE == 2048
OOB_SIZE == 64
BLOCK_SIZE == 64
SECTORS_PER_PAGE == 4

\* b'XSR1d'
Signature == <<88, 83, 82, 49, 100>>

\* b'\xFF\xFF\xFF'
UninitializedLsn == <<255, 255, 255>>

(* ---------------- bounds of the model ---------------- *)
MaxBlocks == 2
MaxRecs == 3
MaxLsn == 1

VARIABLES data, pc, block_start, n_blocks, i, sectors, sector_map, k, out, j, errors

vars == <<data, pc, block_start, n_blocks, i, sectors, sector_map, k, out, j, errors>>

(* ---------------- bytes and slices ---------------- *)
Min(S) == CHOOSE x \in S : \A y \in S : x <= y
Max(S) == CHOOSE x \in S : \A y \in S : x >= y

\* data[o] for 0 <= o < len(data)
ByteAt(d, o) == IF o \in DOMAIN d.bytes THEN d.bytes[o] ELSE d.fill

\* Python's slice index normalisation for a sequence of length n
SliceIndex(n, x) == IF x < 0 THEN (IF x + n < 0 THEN 0 ELSE x + n)
                    ELSE (IF x > n THEN n ELSE x)

\* seq[a:b] of the view v = <<lo, hi>> of the buffer, as a view of the buffer
Slice(v, a, b) ==
    LET n  == v[2] - v[1]
        lo == SliceIndex(n, a)
        hi == SliceIndex(n, b)
    IN  <<v[1] + lo, v[1] + (IF hi < lo THEN lo ELSE hi)>>

Whole(d) == <<0, d.len>>

\* the bytes of a view
BytesOf(d, v) == [x \in 1..(v[2] - v[1]) |-> ByteAt(d, v[1] + x - 1)]

RECURSIVE IntFromBytesLittle(_)
IntFromBytesLittle(bs) ==
    IF bs = <<>> THEN 0 ELSE bs[1] + 256 * IntFromBytesLittle(Tail(bs))

(* ---------------- XSR1dBlockInfo ---------------- *)
BlockInfoParse(d, first_page, blk_start) ==
    [block_number  |-> IntFromBytesLittle(BytesOf(d, Slice(first_page, 20, 24))),
     block_version |-> IntFromBytesLittle(BytesOf(d, Slice(first_page, 16, 20))),
     block_start   |-> blk_start]

(* ---------------- XSR1dSectorInfo ---------------- *)
FirstSectorKept(sector_start, block_info) == FALSE

\* _parse_single: <<>> for None, else the one-element list of the record
FirstSectorSkipped(sector_start, block_info) == sector_start = block_info.block_start

ParseSingle(d, sector_oob, block_info, sector_start) ==
    LET lsn_bytes == BytesOf(d, Slice(sector_oob, 2, 5))
    IN  IF lsn_bytes = UninitializedLsn THEN <<>>
        ELSE IF FirstSectorSkipped(sector_start, block_info) THEN <<>>
        ELSE <<[lsn |-> IntFromBytesLittle(lsn_bytes),
                block_info |-> block_info,
                sector_start |-> sector_start]>>

RECURSIVE ParsePageFrom(_, _, _, _, _)
ParsePageFrom(d, spare_bytes, block_info, page_start, x) ==
    IF x >= SECTORS_PER_PAGE THEN <<>>
    ELSE LET sector_start     == page_start + x * SECTOR_SIZE
             sector_oob_start == 0 + x * SECTOR_SPARE_SIZE
             sector_oob_end   == sector_oob_start + SECTOR_SPARE_SIZE
         IN  ParseSingle(d, Slice(spare_bytes, sector_oob_start, sector_oob_end),
                         block_info, sector_start)
             \o ParsePageFrom(d, spare_bytes, block_info, page_start, x + 1)

ParsePage(d, spare_bytes, block_info, page_start) ==
    ParsePageFrom(d, spare_bytes, block_info, page_start, 0)

(* ---------------- XSR1d ---------------- *)
\* data.find(b'XSR1d'): the fill byte is no byte of the signature, so a match
\* starts at a stored byte
FindStart(d) ==
    LET hits == {o \in DOMAIN d.bytes :
                    /\ o + Len(Signature) <= d.len
                    /\ \A x \in 1..Len(Signature) : ByteAt(d, o + x - 1) = Signature[x]}
    IN  IF hits = {} THEN -1 ELSE Min(hits)

BlockBytes == BLOCK_SIZE * (PAGE_SIZE + OOB_SIZE)

NBlocksCeil(len, start) == (len - start + BlockBytes - 1) \div BlockBytes

\* math.floor((len(data) - block_start) / block_size)
NBlocks(len, start) == (len - start) \div BlockBytes

RECURSIVE ParsePages(_, _, _, _, _)
ParsePages(d, block_info, page_start, page_end, x) ==
    IF x >= BLOCK_SIZE THEN <<>>
    ELSE ParsePage(d, Slice(Whole(d), page_end, page_end + OOB_SIZE), block_info, page_start)
         \o ParsePages(d, block_info, page_end + OOB_SIZE,
                       page_end + OOB_SIZE + PAGE_SIZE, x + 1)

ParseNextBlock(d, blk_start) ==
    LET page_start == blk_start
        page_end   == page_start + PAGE_SIZE
        block_info == BlockInfoParse(d, Slice(Whole(d), page_start, page_end), blk_start)
    IN  ParsePages(d, block_info, page_start, page_end, 0)

(* ---------------- sector map ---------------- *)
None == [isNone |-> TRUE, infos |-> <<>>]
List(s) == [isNone |-> FALSE, infos |-> s]

Nones(n) == [x \in 1..n |-> None]

AddToSlotReplacing(slot, sector_info) == List(<<sector_info>>)

AddToSlot(slot, sector_info) ==
    IF slot.isNone THEN List(<<sector_info>>)
    ELSE List(Append(slot.infos, sector_info))

NAddOneMore(lsn, len) == lsn - len + 2

NAdd(lsn, len) == lsn - len + 1

\* one iteration of build_sector_map's loop; slot lsn is sequence index lsn + 1
BuildOne(map, sector_info) ==
    LET grown == IF sector_info.lsn >= Len(map)
                 THEN map \o Nones(NAdd(sector_info.lsn, Len(map)))
                 ELSE map
    IN  [grown EXCEPT ![sector_info.lsn + 1] = AddToSlot(@, sector_info)]

RECURSIVE BuildFrom(_, _)
BuildFrom(map, secs) ==
    IF secs = <<>> THEN map ELSE BuildFrom(BuildOne(map, Head(secs)), Tail(secs))

BuildSectorMap(secs) == BuildFrom(<<>>, secs)

(* ---------------- rearrange_data ---------------- *)
\* key=lambda x:(x.block_info.block_version, x.sector_start), compared as tuples
KeyLess(a, b) ==
    \/ a.block_info.block_version < b.block_info.block_version
    \/ /\ a.block_info.block_version = b.block_info.block_version
       /\ a.sector_start < b.sector_start

\* stable insertion: x goes after every element whose key is not greater
RECURSIVE InsertSorted(_, _)
InsertSorted(s, x) ==
    IF s = <<>> THEN <<x>>
    ELSE IF KeyLess(x, Head(s)) THEN <<x>> \o s
    ELSE <<Head(s)>> \o InsertSorted(Tail(s), x)

RECURSIVE SortFrom(_, _)
SortFrom(acc, s) ==
    IF s = <<>> THEN acc ELSE SortFrom(InsertSorted(acc, Head(s)), Tail(s))

Unsorted(s) == s

\* sorted(sector_infos, key=...)
Sorted(s) == SortFrom(<<>>, s)

FillerOneByte == [src |-> <<0, 0>>, ff |-> 1]

\* bytearray(b'\xFF') * self.SECTOR_SIZE
Filler == [src |-> <<0, 0>>, ff |-> SECTOR_SIZE]

\* data[start:end]
Copied(d, start, end) == [src |-> Slice(Whole(d), start, end), ff |-> 0]

PieceLen(p) == (p.src[2] - p.src[1]) + p.ff

RearrangeOneFromBlockStart(d, slot) ==
    IF slot.isNone THEN Filler
    ELSE LET start == Sorted(slot.infos)[1].block_info.block_start
             end   == start + SECTOR_SIZE
         IN  Copied(d, start, end)

\* what one iteration of rearrange_data's loop appends
RearrangeOne(d, slot) ==
    IF slot.isNone THEN Filler
    ELSE LET start == Sorted(slot.infos)[1].sector_start
             end   == start + SECTOR_SIZE
         IN  Copied(d, start, end)

Overruns(d, slot) ==
    /\ ~slot.isNone
    /\ Sorted(slot.infos)[1].sector_start + SECTOR_SIZE > d.len

RearrangeData(d, map) == [x \in 1..Len(map) |-> RearrangeOne(d, map[x])]

RECURSIVE OutLen(_)
OutLen(o) == IF o = <<>> THEN 0 ELSE PieceLen(Head(o)) + OutLen(Tail(o))

(* ---------------- input buffers of the pipeline ---------------- *)
\* every block carries a version, a tag on its first sector and possibly a tag
\* on its last sector; all other tags are left erased (0xFF)
NoTag == <<>>
BlockVersions == {1, 2}
FirstSectorTag == <<0>>
LastSectorTags == {NoTag, <<0>>, <<2>>}
\* <<bytes before the signature, bytes after the last whole block>>
Shapes == {<<0, 0>>, <<3, 700>>}

LittleEndian(n, w) == [x \in 1..w |-> (n \div (256 ^ (x - 1))) % 256]

Put(at, bs) == {<<at + x - 1, bs[x]>> : x \in 1..Len(bs)}

TagOffset(base, b, page, s) ==
    base + b * BlockBytes + page * (PAGE_SIZE + OOB_SIZE) + PAGE_SIZE
         + s * SECTOR_SPARE_SIZE + 2

BlockPatch(base, b, c) ==
    Put(base + b * BlockBytes + 16, LittleEndian(c.ver, 4))
    \cup Put(base + b * BlockBytes + 20, LittleEndian(b, 4))
    \cup Put(TagOffset(base, b, 0, 0), LittleEndian(FirstSectorTag[1], 3))
    \cup (IF c.last = NoTag THEN {}
          ELSE Put(TagOffset(base, b, BLOCK_SIZE - 1, SECTORS_PER_PAGE - 1), LittleEndian(c.last[1], 3)))

MkData(shape, hasSig, blocks) ==
    LET base  == IF hasSig THEN shape[1] ELSE -1
        len   == shape[1] + Len(blocks) * BlockBytes + shape[2]
        patch == (IF hasSig THEN Put(base, Signature) ELSE {})
                 \cup UNION {BlockPatch(base, b - 1, blocks[b]) : b \in 1..Len(blocks)}
        kept  == {p \in patch : p[1] >= 0 /\ p[1] < len}
    IN  [len |-> len, fill |-> 255,
         bytes |-> [o \in {p[1] : p \in kept} |-> (CHOOSE p \in kept : p[1] = o)[2]]]

BlockChoices == [ver : BlockVersions, last : LastSectorTags]

(* ---------------- reconstruct ---------------- *)
Init ==
    /\ \E shape \in Shapes, hasSig \in BOOLEAN, w \in 0..MaxBlocks :
         \E blocks \in [1..w -> BlockChoices] :
            data = MkData(shape, hasSig, blocks)
    /\ pc = "read_metadata"
    /\ block_start = 0
    /\ n_blocks = 0
    /\ i = 0
    /\ sectors = <<>>
    /\ sector_map = <<>>
    /\ k = 0
    /\ out = <<>>
    /\ j = 0
    /\ errors = 0

\* read_metadata up to its loop
ReadMetadataStart ==
    /\ pc = "read_metadata"
    /\ block_start' = FindStart(data)
    /\ n_blocks' = NBlocks(data.len, FindStart(data))
    /\ sectors' = <<>>
    /\ i' = 0
    /\ pc' = "scan"
    /\ UNCHANGED <<data, sector_map, k, out, j, errors>>

\* one iteration of read_metadata's loop
ScanBlock ==
    /\ pc = "scan"
    /\ i < n_blocks
    /\ sectors' = sectors \o ParseNextBlock(data, block_start)
    /\ block_start' = block_start + BlockBytes
    /\ i' = i + 1
    /\ UNCHANGED <<data, pc, n_blocks, sector_map, k, out, j, errors>>

\* read_metadata returns; build_sector_map starts
ReadMetadataReturn ==
    /\ pc = "scan"
    /\ i >= n_blocks
    /\ sector_map' = <<>>
    /\ k' = 0
    /\ pc' = "build"
    /\ UNCHANGED <<data, block_start, n_blocks, i, sectors, out, j, errors>>

\* one iteration of build_sector_map's loop
BuildStep ==
    /\ pc = "build"
    /\ k < Len(sectors)
    /\ sector_map' = BuildOne(sector_map, sectors[k + 1])
    /\ k' = k + 1
    /\ UNCHANGED <<data, pc, block_start, n_blocks, i, sectors, out, j, errors>>

\* build_sector_map returns; rearrange_data starts
BuildReturn ==
    /\ pc = "build"
    /\ k >= Len(sectors)
    /\ out' = <<>>
    /\ j' = 0
    /\ pc' = "rearrange"
    /\ UNCHANGED <<data, block_start, n_blocks, i, sectors, sector_map, k, errors>>

\* one iteration of rearrange_data's loop
RearrangeStep ==
    /\ pc = "rearrange"
    /\ j < Len(sector_map)
    /\ out' = Append(out, RearrangeOne(data, sector_map[j + 1]))
    /\ errors' = IF Overruns(data, sector_map[j + 1]) THEN errors + 1 ELSE errors
    /\ j' = j + 1
    /\ UNCHANGED <<data, pc, block_start, n_blocks, i, sectors, sector_map, k>>

\* rearrange_data and reconstruct return
RearrangeReturn ==
    /\ pc = "rearrange"
    /\ j >= Len(sector_map)
    /\ pc' = "returned"
    /\ UNCHANGED <<data, block_start, n_blocks, i, sectors, sector_map, k, out, j, errors>>

Next ==
    \/ ReadMetadataStart
    \/ ScanBlock
    \/ ReadMetadataReturn
    \/ BuildStep
    \/ BuildReturn
    \/ RearrangeStep
    \/ RearrangeReturn

Spec == Init /\ [][Next]_vars

(* ---------------- build_sector_map and rearrange_data on any record list ---------------- *)
UnitLen == 2 * SECTOR_SIZE + 100
UnitStarts == {SECTOR_SIZE, 2 * SECTOR_SIZE}
UnitRecords ==
    {[lsn |-> l,
      block_info |-> [block_number |-> 0, block_version |-> v, block_start |-> 0],
      sector_start |-> s] : l \in 0..MaxLsn, v \in BlockVersions, s \in UnitStarts}

InitUnit ==
    /\ data = [len |-> UnitLen, fill |-> 255, bytes |-> <<>>]
    /\ \E n \in 0..MaxRecs : sectors \in [1..n -> UnitRecords]
    /\ pc = "build"
    /\ block_start = 0
    /\ n_blocks = 0
    /\ i = 0
    /\ sector_map = <<>>
    /\ k = 0
    /\ out = <<>>
    /\ j = 0
    /\ errors = 0

NextUnit ==
    \/ BuildStep
    \/ BuildReturn
    \/ RearrangeStep
    \/ RearrangeReturn

SpecUnit == InitUnit /\ [][NextUnit]_vars

(* ---------------- properties ---------------- *)
Range(s) == {s[x] : x \in DOMAIN s}
Count(s, r) == Cardinality({x \in DOMAIN s : s[x] = r})
Carrying(secs, l) == {x \in DOMAIN secs : secs[x].lsn = l}
MaxLsnOf(secs) == Max({secs[x].lsn : x \in DOMAIN secs})
KeyOf(r) == <<r.block_info.block_version, r.sector_start>>
\* the candidate no other candidate beats on (block version, physical offset)
Newest(infos) == CHOOSE c \in Range(infos) : \A o \in Range(infos) : ~KeyLess(c, o)
\* the output sector of LSN l lies at bytes [512 * l, 512 * l + 512) of the output
Aligned(o, l) ==
    /\ l + 1 <= Len(o)
    /\ OutLen(SubSeq(o, 1, l)) = SECTOR_SIZE * l
    /\ PieceLen(o[l + 1]) = SECTOR_SIZE
\* the 512 input bytes at physical offset start
SectorAt(start) == [src |-> <<start, start + SECTOR_SIZE>>, ff |-> 0]
\* the raw LSN tag bytes of the sector a record was made from
RawTag(d, r) ==
    LET rel  == r.sector_start - r.block_info.block_start
        page == rel \div (PAGE_SIZE + OOB_SIZE)
        sec  == (rel % (PAGE_SIZE + OOB_SIZE)) \div SECTOR_SIZE
        at   == r.block_info.block_start + page * (PAGE_SIZE + OOB_SIZE) + PAGE_SIZE
                + sec * SECTOR_SPARE_SIZE + 2
    IN  BytesOf(d, <<at, at + 3>>)
Permuted(secs) ==
    {[x \in DOMAIN secs |-> secs[f[x]]] : f \in Permutations(DOMAIN secs)}

\* C1: for every LSN whose slot holds two or more candidates, the output sector
\* rearrange_data wrote for it is read from the candidate with the highest block
\* version, ties broken by the highest sector_start.
C1_HighestVersionWins ==
    \A x \in 1..Len(out) :
        (~sector_map[x].isNone /\ Len(sector_map[x].infos) >= 2)
            => out[x].src = Slice(Whole(data), Newest(sector_map[x].infos).sector_start,
                                  Newest(sector_map[x].infos).sector_start + SECTOR_SIZE)

\* C2: when the signature occurs nowhere in the input, reconstruct fails: no block
\* is scanned and no output image is returned.
C2_SignatureNotFoundFails ==
    (pc # "read_metadata" /\ FindStart(data) = -1) => (i = 0 /\ pc # "returned")

\* C3: when reconstruct yields at least one sector record, the returned buffer is
\* exactly (maxLSN + 1) * 512 bytes long and the sector of LSN l occupies bytes
\* [512 * l, 512 * l + 512).
C3_OutputLength ==
    (pc = "returned" /\ sectors # <<>>)
        => /\ OutLen(out) = (MaxLsnOf(sectors) + 1) * SECTOR_SIZE
           /\ \A l \in 0..MaxLsnOf(sectors) : Aligned(out, l)

C3_Witness ==
    /\ pc = "returned"
    /\ Len(sectors) >= 2
    /\ MaxLsnOf(sectors) = 2
    /\ OutLen(out) = 3 * SECTOR_SIZE

\* C4: when the winning record's range [sector_start, sector_start + 512) runs past
\* the end of the input, the available bytes are copied and the sector is padded
\* with 0xFF to exactly 512 bytes, and the remaining slots are still processed.
C4_OverrunPadded ==
    /\ \A x \in 1..Len(out) :
          Overruns(data, sector_map[x])
              => /\ PieceLen(out[x]) = SECTOR_SIZE
                 /\ out[x].ff = SECTOR_SIZE - (out[x].src[2] - out[x].src[1])
    /\ pc = "returned" => Len(out) = Len(sector_map)

\* C5: read_metadata never yields a record for the first sector of a block, nor for
\* a sector whose raw LSN tag bytes are all 0xFF.
C5_NoFirstSectorNoErased ==
    \A x \in DOMAIN sectors :
        /\ sectors[x].sector_start # sectors[x].block_info.block_start
        /\ RawTag(data, sectors[x]) # UninitializedLsn

C5_Witness ==
    /\ pc = "build"
    /\ i = 2
    /\ Len(sectors) = 1
    /\ \E b \in 0..1 :
          BytesOf(data, <<FindStart(data) + b * BlockBytes + PAGE_SIZE + 2,
                          FindStart(data) + b * BlockBytes + PAGE_SIZE + 5>>) # UninitializedLsn

\* C6: for every LSN in 0..maxLSN that no record carries, the output sector at
\* index LSN is exactly 512 bytes of 0xFF.
C6_AbsentLsnIsFiller ==
    (pc = "returned" /\ sectors # <<>>)
        => \A l \in 0..MaxLsnOf(sectors) :
              Carrying(sectors, l) = {}
                  => /\ Aligned(out, l)
                     /\ out[l + 1] = [src |-> <<0, 0>>, ff |-> SECTOR_SIZE]

C6_Witness ==
    /\ pc = "returned"
    /\ sectors # <<>>
    /\ Carrying(sectors, 1) = {}
    /\ Carrying(sectors, 0) # {}
    /\ Carrying(sectors, 2) # {}

\* C7: for every LSN carried by exactly one record, the output sector at index LSN
\* is the 512 input bytes starting at that record's sector_start.
C7_SingleCandidateCopied ==
    pc = "returned"
        => \A x \in DOMAIN sectors :
              Carrying(sectors, sectors[x].lsn) = {x}
                  => /\ Aligned(out, sectors[x].lsn)
                     /\ out[sectors[x].lsn + 1] = SectorAt(sectors[x].sector_start)

C7_Witness ==
    /\ pc = "returned"
    /\ \E x \in DOMAIN sectors :
          /\ Carrying(sectors, sectors[x].lsn) = {x}
          /\ sectors[x].lsn = 2
          /\ sectors[x].block_info.block_start > 0

\* C8: for any record list and any permutation of it, build_sector_map followed by
\* rearrange_data picks the same winner for every LSN and gives the same output.
C8_OrderIndependent ==
    pc = "returned"
        => \A p \in Permuted(sectors) :
              /\ RearrangeData(data, BuildSectorMap(p)) = out
              /\ Len(BuildSectorMap(p)) = Len(sector_map)
              /\ \A x \in 1..Len(sector_map) :
                    /\ BuildSectorMap(p)[x].isNone = sector_map[x].isNone
                    /\ ~sector_map[x].isNone
                          => KeyOf(Sorted(BuildSectorMap(p)[x].infos)[1])
                                = KeyOf(Sorted(sector_map[x].infos)[1])

C8_Witness ==
    /\ pc = "returned"
    /\ \E x \in 1..Len(sector_map) :
          /\ Len(sector_map[x].infos) >= 2
          /\ KeyLess(sector_map[x].infos[2], sector_map[x].infos[1])

\* C9: after every iteration of build_sector_map's loop the map has one slot per
\* LSN 0..largest LSN processed, a slot is None exactly when no processed record
\* has its LSN, and otherwise holds exactly the processed records with its LSN.
C9_MapContiguous ==
    (pc = "build" /\ k >= 1)
        => LET done == SubSeq(sectors, 1, k)
           IN  /\ Len(sector_map) = MaxLsnOf(done) + 1
               /\ \A l \in 0..MaxLsnOf(done) :
                     /\ sector_map[l + 1].isNone <=> Carrying(done, l) = {}
                     /\ ~sector_map[l + 1].isNone => sector_map[l + 1].infos # <<>>
                     /\ Len(sector_map[l + 1].infos) = Cardinality(Carrying(done, l))
                     /\ \A r \in Range(done) \cup Range(sector_map[l + 1].infos) :
                           Count(sector_map[l + 1].infos, r)
                              = (IF r.lsn = l THEN Count(done, r) ELSE 0)

C9_Witness ==
    /\ pc = "build"
    /\ k = 3
    /\ Len(sector_map) = 2
    /\ sector_map[1].isNone
    /\ Len(sector_map[2].infos) = 3

\* C10: with the signature at offset s, read_metadata scans exactly
\* floor((len(data) - s) / block_size) blocks, every record lies in
\* [s, len(data) - 512], and rearrange_data never takes its out-of-range branch.
C10_WholeBlocksOnly ==
    (pc # "read_metadata" /\ FindStart(data) >= 0)
        => /\ n_blocks * BlockBytes <= data.len - FindStart(data)
           /\ data.len - FindStart(data) < (n_blocks + 1) * BlockBytes
           /\ i <= n_blocks
           /\ pc # "scan" => i = n_blocks
           /\ \A x \in DOMAIN sectors :
                 /\ FindStart(data) <= sectors[x].sector_start
                 /\ sectors[x].sector_start + SECTOR_SIZE <= data.len
           /\ errors = 0

C10_Witness ==
    /\ pc = "returned"
    /\ FindStart(data) > 0
    /\ n_blocks = 2
    /\ data.len - FindStart(data) > n_blocks * BlockBytes
    /\ sectors # <<>>

====
